---- MODULE Spec2Model ----
(***************************************************************************)
(* Model of the pipeless input component:                                  *)
(*   core/src/pipeless_ai/lib/input/input.py  (pipeline coordinator)       *)
(*   core/src/pipeless_ai/lib/config.py       (Config.get_n_workers)       *)
(*                                                                         *)
(* Three sources of events act on the coordinator once the pipeline is     *)
(* PLAYING: the bus watch dispatched by the GLib main loop                 *)
(* (on_bus_message), the pad-added signal and the upstream-event pad probe *)
(* of uridecodebin (pad_added_callback, handle_caps_change,                *)
(* on_pad_upstream_event) and the appsink new-sample signal raised on the  *)
(* engine's streaming thread (on_new_sample).  The engine is the           *)
(* environment: which event comes next, and whether a pull, a map or a     *)
(* link succeeds, is a nondeterministic choice.                            *)
(***************************************************************************)
EXTENDS Integers, Sequences, FiniteSets, TLC

\* ---------------------------------------------------------------- bounds
MaxWorkers == 2      \* largest configured n_workers explored
MaxEvents  == 6      \* engine events (bus messages, samples, pad events) in one run
MaxPads    == 2      \* pads uridecodebin creates (video, audio)

Pads    == 1..MaxPads
NoPad   == 0

VARIABLES
    pc,            \* position of input(): config, start, try, loop, finally, done; exit1: sys.exit(1); raised: uncaught exception
    engine,        \* pipeline state: "READY", "PLAYING", "NULL"
    quitRequested, \* loop.quit() has been called
    exitCause,     \* why the try block was left: none, interrupt, exception, quit
    teardown,      \* the steps of the finally block taken, in order
    n_workers,     \* Config.get_n_workers()
    conf,          \* the Config object: the fields __init__ has set, and where it stands
    call,          \* the last call of prioritized_config: its arguments and its result
    busPc,         \* position of on_bus_message: idle, eos_workers
    eosI,          \* iterations of the for loop of the EOS branch done
    nEvents,       \* engine events handled: bus messages, samples, pad-added, caps, probes
    nEOS,          \* EOS bus messages dispatched
    watching,      \* on_bus_message is connected to the bus and has returned True so far
    outLog,        \* sends on InputOutputSocket('w'), in order
    workerLog,     \* per worker, the sends it was handed by InputPushSocket, in order
    rr,            \* the worker the push socket hands its next message to
    outcome,       \* what the engine handed the last new-sample callback ("none" before the first)
    flowRet,       \* what the last new-sample callback returned ("RAISED": left by an exception)
    mapped,        \* buffers mapped by on_new_sample and not unmapped
    added,         \* pads for which pad-added was emitted
    probe,         \* pads whose upstream-event probe is attached
    caps,          \* pads whose get_current_caps() is not None
    linkedTo,      \* the pad linked to videoconvert's sink pad, or NoPad
    linkAttempts,  \* sequence of pads on which pad.link(videoconvert_sink_pad) was called
    skipped,       \* pads skipped with the "already linked" warning
    quietProbes    \* pads on which the probe was invoked before caps were set

vars == << pc, engine, quitRequested, exitCause, teardown, n_workers, conf, call,
           busPc, eosI, nEvents, nEOS, watching, outLog, workerLog, rr, outcome, flowRet, mapped,
           added, probe, caps, linkedTo, linkAttempts, skipped, quietProbes >>

mainVars  == << pc, engine, quitRequested, exitCause, teardown >>
cfgVars   == << n_workers, conf, call >>
busVars   == << busPc, eosI, nEOS, watching >>
frameVars == << outcome, flowRet, mapped >>
padVars   == << added, probe, caps, linkedTo, linkAttempts, skipped, quietProbes >>

Workers == 1..n_workers

\* ------------------------------------------------------------- messages
Msg(kind, mode, pad) == [kind |-> kind, mode |-> mode, pad |-> pad]

\* InputOutputSocket('w').send(msg)
OutSend(kind, pad) == outLog' = Append(outLog, Msg(kind, "send", pad))

\* The push socket is round robin: each send goes to the next worker in turn.
PushDeliver(kind, mode) ==
    /\ workerLog' = [workerLog EXCEPT ![rr] = Append(@, Msg(kind, mode, NoPad))]
    /\ rr' = (rr % n_workers) + 1

\* InputPushSocket().send(msg)
PushSend(kind) == PushDeliver(kind, "send")

\* InputPushSocket().ensure_send(msg)
PushEnsureSend(kind) == PushDeliver(kind, "ensure_send")

Count(log, kind) == Cardinality({i \in 1..Len(log) : log[i].kind = kind})

OutEOS  == Count(outLog, "EOS")
RECURSIVE SumEOS(_)
SumEOS(w) == IF w = 0 THEN 0 ELSE Count(workerLog[w], "EOS") + SumEOS(w - 1)
PushEOS == SumEOS(n_workers)

\* -------------------------------------------------------- config.py
MaxUriLen == 3       \* longest URI explored, in letters

\* Python values: None, str, int, bool.  A str holds TLA+ text, or, for a
\* URI, the sequence of its letters.
None    == [t |-> "none"]
StrV(x)  == [t |-> "str", s |-> x]
IntV(n)  == [t |-> "int", i |-> n]
BoolV(x) == [t |-> "bool", b |-> x]

\* config[path] raises KeyError: the document has no such key
Absent  == [t |-> "absent"]

\* What a call ends in: a returned value, sys.exit(1), or an exception
Returned(v) == [kind |-> "value", value |-> v]
Exited      == [kind |-> "exit"]
Raised      == [kind |-> "raise"]

\* int(text): the decimal texts the model's environments use; any other text
\* raises ValueError
IntTexts == {"3", "0", "-1", "1234"}
int(text) ==
    CASE text = "3"    -> 3
      [] text = "0"    -> 0
      [] text = "-1"   -> 0 - 1
      [] text = "1234" -> 1234

\* convert_to(value) for the value of an environment variable (always a str):
\* str(v) is v, bool(v) is whether v is non-empty, int(v) parses or raises
convert(convert_to, v) ==
    CASE convert_to = "str"  -> Returned(v)
      [] convert_to = "bool" -> Returned(BoolV(v.s # ""))
      [] convert_to = "int"  -> IF v.s \in IntTexts THEN Returned(IntV(int(v.s))) ELSE Raised

\* Variant of prioritized_config that looks in the document first.
prioritized_config_DocFirst(docv, envv, convert_to, required) ==
    IF docv # Absent
    THEN Returned(docv)
    ELSE IF envv # None THEN convert(convert_to, envv)
         ELSE IF required THEN Exited ELSE Returned(None)

\* Variant of prioritized_config that returns None for a missing required field.
prioritized_config_NoExit(docv, envv, convert_to, required) ==
    IF envv = None
    THEN IF docv = Absent THEN Returned(None) ELSE Returned(docv)
    ELSE convert(convert_to, envv)

\* prioritized_config(config, path, env_var_name, convert_to, required):
\* envv is os.environ.get(env_var_name, None), docv is config[path] or Absent
prioritized_config(docv, envv, convert_to, required) ==
    IF envv = None
    THEN IF docv = Absent
         THEN IF required THEN Exited ELSE Returned(None)
         ELSE Returned(docv)
    ELSE convert(convert_to, envv)

\* URIs are texts over four letters; the one-letter text <<"screen">> stands
\* for the word 'screen'.
Letters == {"screen", "file", ":", "/"}
RECURSIVE TextsOfLen(_)
TextsOfLen(n) ==
    IF n = 0 THEN {<< >>}
    ELSE {Append(t, c) : t \in TextsOfLen(n - 1), c \in Letters}
RECURSIVE TextsUpTo(_)
TextsUpTo(n) == IF n = 0 THEN TextsOfLen(0) ELSE TextsOfLen(n) \cup TextsUpTo(n - 1)
AllUris    == TextsUpTo(MaxUriLen)
SampleUris == {<<"screen">>, <<"file">>, <<"file", ":", "/">>, <<"file", ":", "/", ":", "/">>}

\* text.split(':'): the pieces between the colons, all of them
RECURSIVE split(_)
split(text) ==
    IF \A k \in 1..Len(text) : text[k] # ":"
    THEN << text >>
    ELSE LET k == CHOOSE k \in 1..Len(text) :
                      text[k] = ":" /\ \A j \in 1..(k - 1) : text[j] # ":"
         IN  << SubSeq(text, 1, k - 1) >> \o split(SubSeq(text, k + 1, Len(text)))

\* Video.__init__ after self._uri is set: the protocol and the location, or
\* sys.exit(1) from the bare except (None has no split; one piece has no [1])
VideoUri(uri) ==
    IF uri = StrV(<<"screen">>)
    THEN Returned([protocol |-> <<"screen">>, location |-> <<"screen">>])
    ELSE IF uri.t # "str" THEN Exited
    ELSE LET uri_split == split(uri.s)
         IN  IF Len(uri_split) < 2 THEN Exited
             ELSE Returned([protocol |-> uri_split[1], location |-> uri_split[2]])

\* ------------------------------------------------------------------ Init
\* Init is the state of input() after the Config is constructed, the graph
\* is built and the callbacks are connected, before
\* pipeline.set_state(PLAYING).
NoSection ==
    [enable |-> None, uri |-> None, protocol |-> None, location |-> None,
     host |-> None, port |-> None]

\* Config.__init__ entered, no field set
NewConf ==
    [stage |-> <<"config", "log_level">>, log_level |-> None,
     input |-> NoSection, output |-> NoSection, n_workers |-> None]

NoCall == [path |-> "none"]

Call(sec, path, docv, envv, convert_to, required, result) ==
    [sec |-> sec, path |-> path, doc |-> docv, env |-> envv,
     convert_to |-> convert_to, required |-> required, result |-> result]

\* A Config whose construction succeeded with n workers, and the call that
\* set its last field
FileSection ==
    [enable |-> BoolV(TRUE), uri |-> StrV(<<"file", ":", "/">>),
     protocol |-> StrV(<<"file">>), location |-> StrV(<<"/">>),
     host |-> StrV("dochost"), port |-> IntV(5678)]
ConstructedConf(n) ==
    [stage |-> <<"config", "constructed">>, log_level |-> StrV("INFO"),
     input |-> FileSection, output |-> FileSection, n_workers |-> IntV(n)]
LastCall(n) ==
    Call("config", "n_workers", IntV(n), None, "int", TRUE, Returned(IntV(n)))

\* The coordinator before anything has happened
CoordInit ==
    /\ engine = "READY"
    /\ quitRequested = FALSE
    /\ exitCause = "none"
    /\ teardown = << >>
    /\ busPc = "idle"
    /\ eosI = 0
    /\ nEvents = 0
    /\ nEOS = 0
    /\ watching = TRUE
    /\ outLog = << >>
    /\ rr = 1
    /\ outcome = "none"
    /\ flowRet = "none"
    /\ mapped = 0
    /\ added = {}
    /\ probe = {}
    /\ caps = {}
    /\ linkedTo = NoPad
    /\ linkAttempts = << >>
    /\ skipped = {}
    /\ quietProbes = {}

Init ==
    /\ pc = "start"
    /\ n_workers \in 1..MaxWorkers
    /\ conf = ConstructedConf(n_workers)
    /\ call = LastCall(n_workers)
    /\ workerLog = [w \in 1..n_workers |-> << >>]
    /\ CoordInit

\* ------------------------------------------------------ Config.__init__
\* input() starts with config = Config(None): __init__ sets the fields one
\* prioritized_config call after the other.  The environment and the
\* document are fixed before the process starts; the model draws the two
\* values a call reads when it reads them.
coordVars == << engine, quitRequested, exitCause, teardown, nEvents, busVars, outLog,
                rr, frameVars, padVars >>

InitConfig ==
    /\ pc = "config"
    /\ n_workers = None
    /\ conf = NewConf
    /\ call = NoCall
    /\ workerLog = << >>
    /\ CoordInit

At(sec, path) == pc = "config" /\ conf.stage = << sec, path >>

\* Where input() stands after a call that ended in sys.exit(1) or an exception
After(result) ==
    CASE result.kind = "value" -> "config"
      [] result.kind = "exit"  -> "exit1"
      [] result.kind = "raise" -> "raised"

\* Variant of LogLevel that keeps an unrecognized level.
LogLevel_Keep(v) == v

\* The check of self._log_level: an unrecognized level falls back to DEBUG
LogLevel(v) ==
    IF v # StrV("INFO") /\ v # StrV("DEBUG") /\ v # StrV("WARN") THEN StrV("DEBUG") ELSE v

\* self._log_level = prioritized_config(config, 'log_level', ..., required=True)
ResolveLogLevel ==
    /\ At("config", "log_level")
    /\ \E envv \in {None, StrV("INFO"), StrV("DEBUG"), StrV("TRACE")},
          docv \in {Absent, StrV("WARN"), StrV("TRACE")} :
          LET r == prioritized_config(docv, envv, "str", TRUE) IN
          /\ call' = Call("config", "log_level", docv, envv, "str", TRUE, r)
          /\ pc' = After(r)
          /\ conf' = IF r.kind = "value"
                     THEN [conf EXCEPT !.log_level = LogLevel(r.value),
                                       !.stage = <<"input", "enable">>]
                     ELSE conf
    /\ UNCHANGED << n_workers, workerLog, coordVars >>

\* Video.__init__: self._enable = prioritized_config(..., convert_to=bool, required=True)
ResolveEnable(sec) ==
    /\ At(sec, "enable")
    /\ \E envv \in {None, StrV("true"), StrV("")},
          docv \in {Absent, BoolV(TRUE), BoolV(FALSE)} :
          LET r == prioritized_config(docv, envv, "bool", TRUE) IN
          /\ call' = Call(sec, "enable", docv, envv, "bool", TRUE, r)
          /\ pc' = After(r)
          /\ conf' = IF r.kind = "value"
                     THEN [conf EXCEPT ![sec].enable = r.value, !.stage = <<sec, "uri">>]
                     ELSE conf
    /\ UNCHANGED << n_workers, workerLog, coordVars >>

\* Video.__init__: self._uri = prioritized_config(..., required=False), then the
\* protocol and the location; uris is the set of URIs drawn from
ResolveUri(sec, uris) ==
    /\ At(sec, "uri")
    /\ \E envv \in {None} \cup {StrV(u) : u \in uris},
          docv \in {Absent} \cup {StrV(u) : u \in uris} :
          LET r == prioritized_config(docv, envv, "str", FALSE)
              v == VideoUri(r.value)
          IN
          /\ call' = Call(sec, "uri", docv, envv, "str", FALSE, r)
          /\ pc' = After(v)
          /\ conf' = IF v.kind = "value"
                     THEN [conf EXCEPT ![sec].uri = r.value,
                                       ![sec].protocol = StrV(v.value.protocol),
                                       ![sec].location = StrV(v.value.location),
                                       !.stage = <<sec, "host">>]
                     ELSE [conf EXCEPT ![sec].uri = r.value]
    /\ UNCHANGED << n_workers, workerLog, coordVars >>

\* Address.__init__: self._host = prioritized_config(..., required=True)
ResolveHost(sec) ==
    /\ At(sec, "host")
    /\ \E envv \in {None, StrV("envhost")},
          docv \in {Absent, StrV("dochost")} :
          LET r == prioritized_config(docv, envv, "str", TRUE) IN
          /\ call' = Call(sec, "host", docv, envv, "str", TRUE, r)
          /\ pc' = After(r)
          /\ conf' = IF r.kind = "value"
                     THEN [conf EXCEPT ![sec].host = r.value, !.stage = <<sec, "port">>]
                     ELSE conf
    /\ UNCHANGED << n_workers, workerLog, coordVars >>

\* Variant of ResolvePort in which the port is not required.
ResolvePort_Optional(sec) ==
    /\ At(sec, "port")
    /\ \E envv \in {None, StrV("1234")},
          docv \in {Absent, IntV(5678)} :
          LET r == prioritized_config(docv, envv, "str", FALSE) IN
          /\ call' = Call(sec, "port", docv, envv, "str", FALSE, r)
          /\ pc' = After(r)
          /\ conf' = [conf EXCEPT ![sec].port = r.value,
                                  !.stage = IF sec = "input"
                                            THEN <<"output", "enable">>
                                            ELSE <<"config", "n_workers">>]
    /\ UNCHANGED << n_workers, workerLog, coordVars >>

\* Address.__init__: self._port = prioritized_config(..., required=True); Input
\* is followed by Output, Output by n_workers
ResolvePort(sec) ==
    /\ At(sec, "port")
    /\ \E envv \in {None, StrV("1234")},
          docv \in {Absent, IntV(5678)} :
          LET r == prioritized_config(docv, envv, "str", TRUE) IN
          /\ call' = Call(sec, "port", docv, envv, "str", TRUE, r)
          /\ pc' = After(r)
          /\ conf' = IF r.kind = "value"
                     THEN [conf EXCEPT ![sec].port = r.value,
                                       !.stage = IF sec = "input"
                                                 THEN <<"output", "enable">>
                                                 ELSE <<"config", "n_workers">>]
                     ELSE conf
    /\ UNCHANGED << n_workers, workerLog, coordVars >>

\* self._n_workers = prioritized_config(..., convert_to=int, required=True):
\* from here on get_n_workers() returns the value
ResolveNWorkers ==
    /\ At("config", "n_workers")
    /\ \E envv \in {None, StrV("3"), StrV("0"), StrV("-1"), StrV("abc")},
          docv \in {Absent, IntV(2), IntV(0)} :
          LET r == prioritized_config(docv, envv, "int", TRUE) IN
          /\ call' = Call("config", "n_workers", docv, envv, "int", TRUE, r)
          /\ pc' = After(r)
          /\ IF r.kind = "value"
             THEN /\ conf' = [conf EXCEPT !.n_workers = r.value,
                                          !.stage = <<"config", "constructed">>]
                  /\ n_workers' = r.value.i
                  /\ workerLog' = [w \in 1..r.value.i |-> << >>]
             ELSE UNCHANGED << conf, n_workers, workerLog >>
    /\ UNCHANGED coordVars

\* input() from Gst.init to bus.connect: the elements are created, added and
\* linked and the callbacks connected, or sys.exit(1) when one of them fails
BuildGraph ==
    /\ At("config", "constructed")
    /\ \E ok \in BOOLEAN : pc' = IF ok THEN "start" ELSE "exit1"
    /\ UNCHANGED << cfgVars, workerLog, coordVars >>

NextConfig ==
    \/ ResolveLogLevel
    \/ \E sec \in {"input", "output"} : ResolveEnable(sec)
    \/ \E sec \in {"input", "output"} : ResolveUri(sec, SampleUris)
    \/ \E sec \in {"input", "output"} : ResolveHost(sec)
    \/ \E sec \in {"input", "output"} : ResolvePort(sec)
    \/ ResolveNWorkers
    \/ BuildGraph

\* Config.__init__ and the rest of input() up to the built graph
SpecConfig == InitConfig /\ [][NextConfig]_vars

NextVideo ==
    \/ ResolveLogLevel
    \/ ResolveEnable("input")
    \/ ResolveUri("input", AllUris)

\* Config.__init__ up to the input Video, over every URI of up to MaxUriLen letters
SpecVideo == InitConfig /\ [][NextVideo]_vars

\* The status the process ends with: sys.exit(1) and an uncaught exception
\* give 1; input() returning normally asks for no status, which gives 0.
ExitStatus ==
    CASE pc = "exit1"  -> 1
      [] pc = "raised" -> 1
      [] pc = "done"   -> 0
      [] OTHER         -> 0 - 1

\* ------------------------------------------------------------ input()
\* ret = pipeline.set_state(Gst.State.PLAYING); sys.exit(1) on FAILURE
SetPlaying ==
    /\ pc = "start"
    /\ \E ret \in {"SUCCESS", "FAILURE"} :
          IF ret = "FAILURE"
          THEN /\ pc' = "exit1"
               /\ engine' = engine
          ELSE /\ pc' = "try"
               /\ engine' = "PLAYING"
    /\ UNCHANGED << quitRequested, exitCause, teardown, cfgVars, nEvents, busVars,
                    outLog, workerLog, rr, frameVars, padVars >>

\* The try block up to loop.run(): the state logs and the two sockets.
\* It enters the loop, or is left by KeyboardInterrupt (pass) or by an
\* Exception (traceback.print_exc(); loop.quit()).
TryBody ==
    /\ pc = "try"
    /\ \E r \in {"run", "interrupt", "exception"} :
          /\ pc' = IF r = "run" THEN "loop" ELSE "finally"
          /\ exitCause' = IF r = "run" THEN exitCause ELSE r
          /\ quitRequested' = IF r = "exception" THEN TRUE ELSE quitRequested
    /\ UNCHANGED << engine, teardown, cfgVars, nEvents, busVars, outLog, workerLog, rr,
                    frameVars, padVars >>

\* KeyboardInterrupt while loop.run() is running: except KeyboardInterrupt: pass
Interrupt ==
    /\ pc = "loop"
    /\ pc' = "finally"
    /\ exitCause' = "interrupt"
    /\ UNCHANGED << engine, quitRequested, teardown, cfgVars, nEvents, busVars, outLog,
                    workerLog, rr, frameVars, padVars >>

\* loop.run() returns once loop.quit() was called and the handler returned.
LoopReturn ==
    /\ pc = "loop"
    /\ quitRequested
    /\ busPc = "idle"
    /\ pc' = "finally"
    /\ exitCause' = "quit"
    /\ UNCHANGED << engine, quitRequested, teardown, cfgVars, nEvents, busVars, outLog,
                    workerLog, rr, frameVars, padVars >>

\* Variant of Finally that closes the sockets before stopping the engine.
Finally_CloseFirst ==
    /\ pc = "finally"
    /\ engine' = "NULL"
    /\ teardown' = teardown \o << "close_output", "close_push", "set_null" >>
    /\ pc' = "done"
    /\ UNCHANGED << quitRequested, exitCause, cfgVars, nEvents, busVars, outLog,
                    workerLog, rr, frameVars, padVars >>

\* finally: pipeline.set_state(Gst.State.NULL), then m_socket.close(), then
\* s_push.close().  The three statements run back to back on the main
\* thread and set_state(NULL) stops the streaming threads, so no engine
\* event falls between them.
Finally ==
    /\ pc = "finally"
    /\ engine' = "NULL"
    /\ teardown' = teardown \o << "set_null", "close_output", "close_push" >>
    /\ pc' = "done"
    /\ UNCHANGED << quitRequested, exitCause, cfgVars, nEvents, busVars, outLog,
                    workerLog, rr, frameVars, padVars >>

\* ------------------------------------------------------ on_bus_message
\* The main loop dispatches one bus message at a time, while it runs.
Dispatch ==
    /\ pc = "loop"
    /\ watching
    /\ busPc = "idle"
    /\ ~quitRequested
    /\ nEvents < MaxEvents

\* Variant of BusEOS in which the output is not notified before the workers.
BusEOS_WorkersFirst ==
    /\ Dispatch
    /\ nEvents' = nEvents + 1
    /\ nEOS' = nEOS + 1
    /\ busPc' = "eos_workers"
    /\ eosI' = 0
    /\ UNCHANGED << mainVars, cfgVars, watching, outLog, workerLog, rr, frameVars, padVars >>

\* mtype == EOS, up to the for loop: one send to the output, then the loop.
BusEOS ==
    /\ Dispatch
    /\ nEvents' = nEvents + 1
    /\ nEOS' = nEOS + 1
    /\ OutSend("EOS", NoPad)
    /\ busPc' = "eos_workers"
    /\ eosI' = 0
    /\ UNCHANGED << mainVars, cfgVars, watching, workerLog, rr, frameVars, padVars >>

\* One iteration of: for _ in range(config.get_n_workers()): w_socket.ensure_send(m_msg)
BusEOSWorker ==
    /\ pc = "loop"
    /\ busPc = "eos_workers"
    /\ eosI < n_workers
    /\ PushEnsureSend("EOS")
    /\ eosI' = eosI + 1
    /\ UNCHANGED << mainVars, cfgVars, nEvents, busPc, nEOS, watching, outLog, frameVars,
                    padVars >>

\* Variant of BusEOSReturn in which the for loop stops one iteration early.
BusEOSReturn_OneShort ==
    /\ pc = "loop"
    /\ busPc = "eos_workers"
    /\ eosI >= n_workers - 1
    /\ busPc' = "idle"
    /\ watching' = TRUE
    /\ UNCHANGED << mainVars, cfgVars, nEvents, eosI, nEOS, outLog, workerLog, rr,
                    frameVars, padVars >>

\* The for loop is exhausted: return True
BusEOSReturn ==
    /\ pc = "loop"
    /\ busPc = "eos_workers"
    /\ eosI >= n_workers
    /\ busPc' = "idle"
    /\ watching' = TRUE
    /\ UNCHANGED << mainVars, cfgVars, nEvents, eosI, nEOS, outLog, workerLog, rr,
                    frameVars, padVars >>

\* Variant of BusError that logs the error and does not quit the loop.
BusError_NoQuit ==
    /\ Dispatch
    /\ nEvents' = nEvents + 1
    /\ watching' = TRUE
    /\ UNCHANGED << mainVars, cfgVars, busPc, eosI, nEOS, outLog, workerLog, rr,
                    frameVars, padVars >>

\* mtype == ERROR: two log lines and loop.quit()
BusError ==
    /\ Dispatch
    /\ nEvents' = nEvents + 1
    /\ quitRequested' = TRUE
    /\ watching' = TRUE
    /\ UNCHANGED << pc, engine, exitCause, teardown, cfgVars, busPc, eosI, nEOS,
                    outLog, workerLog, rr, frameVars, padVars >>

\* mtype == TAG: StreamTagsMsg sent to the output
BusTag ==
    /\ Dispatch
    /\ nEvents' = nEvents + 1
    /\ OutSend("Tags", NoPad)
    /\ watching' = TRUE
    /\ UNCHANGED << mainVars, cfgVars, busPc, eosI, nEOS, workerLog, rr,
                    frameVars, padVars >>

\* Variant of BusOther in which a warning quits the loop like an error.
BusOther_Quit ==
    /\ Dispatch
    /\ nEvents' = nEvents + 1
    /\ quitRequested' = TRUE
    /\ watching' = TRUE
    /\ UNCHANGED << pc, engine, exitCause, teardown, cfgVars, busPc, eosI, nEOS,
                    outLog, workerLog, rr, frameVars, padVars >>

\* mtype is WARNING or STATE_CHANGED (logged), or a type no branch names
BusOther ==
    /\ Dispatch
    /\ \E mtype \in {"WARNING", "STATE_CHANGED", "OTHER"} : nEvents' = nEvents + 1
    /\ watching' = TRUE
    /\ UNCHANGED << mainVars, cfgVars, busPc, eosI, nEOS, outLog, workerLog, rr,
                    frameVars, padVars >>

\* ------------------------------------------------------- on_new_sample
\* What the engine can hand one invocation: no sample, a sample without
\* buffer, a buffer whose map fails, a mapped buffer whose frame message
\* cannot be built or sent (np.ndarray, serialize or send raises), or a
\* mapped buffer that is sent.
Outcomes == {"no_sample", "no_buffer", "map_fail", "raise", "ok"}

\* Variant of on_new_sample that sends the frame without checking the map.
on_new_sample_SendUnmapped(o) ==
    /\ outcome' = o
    /\ CASE o = "no_sample" -> /\ flowRet' = "ERROR"
                               /\ UNCHANGED << mapped, workerLog, rr >>
         [] o = "no_buffer" -> /\ flowRet' = "ERROR"
                               /\ UNCHANGED << mapped, workerLog, rr >>
         [] o = "map_fail"  -> /\ PushSend("Frame")
                               /\ mapped' = mapped
                               /\ flowRet' = "ERROR"
         [] o = "raise"     -> /\ flowRet' = "RAISED"
                               /\ mapped' = mapped + 1
                               /\ UNCHANGED << workerLog, rr >>
         [] o = "ok"        -> /\ PushSend("Frame")
                               /\ mapped' = mapped
                               /\ flowRet' = "OK"

on_new_sample(o) ==
    /\ outcome' = o
    /\ CASE o = "no_sample" -> /\ flowRet' = "ERROR"
                               /\ UNCHANGED << mapped, workerLog, rr >>
         [] o = "no_buffer" -> /\ flowRet' = "ERROR"
                               /\ UNCHANGED << mapped, workerLog, rr >>
         [] o = "map_fail"  -> /\ flowRet' = "ERROR"
                               /\ UNCHANGED << mapped, workerLog, rr >>
         [] o = "raise"     -> \* buffer.map succeeded; the exception skips buffer.unmap
                               /\ flowRet' = "RAISED"
                               /\ mapped' = mapped + 1
                               /\ UNCHANGED << workerLog, rr >>
         [] o = "ok"        -> \* s_push.send(s_msg); buffer.unmap(info); return OK
                               /\ PushSend("Frame")
                               /\ mapped' = mapped
                               /\ flowRet' = "OK"

\* The appsink raises new-sample on the streaming thread while PLAYING.
NewSample ==
    /\ engine = "PLAYING"
    /\ nEvents < MaxEvents
    /\ nEvents' = nEvents + 1
    /\ \E o \in Outcomes : on_new_sample(o)
    /\ UNCHANGED << mainVars, cfgVars, busVars, outLog, padVars >>

\* ------------------------------------------------- pad-added, pad probe
\* Variant of pad_added_callback without the is_linked() guard.
pad_added_callback_NoGuard(p, ok) ==
    /\ linkAttempts' = Append(linkAttempts, p)
    /\ linkedTo' = IF ok THEN p ELSE linkedTo
    /\ skipped' = skipped

\* pad_added_callback(pad); ok is whether pad.link(videoconvert_sink_pad) succeeds
pad_added_callback(p, ok) ==
    IF linkedTo = NoPad
    THEN /\ linkAttempts' = Append(linkAttempts, p)
         /\ linkedTo' = IF ok THEN p ELSE NoPad
         /\ skipped' = skipped
    ELSE /\ skipped' = skipped \cup {p}
         /\ UNCHANGED << linkAttempts, linkedTo >>

\* handle_caps_change(pad): pad.add_probe(EVENT_UPSTREAM, on_pad_upstream_event, pad)
handle_caps_change(p) == probe' = probe \cup {p}

\* on_pad_added(element, pad, pad_added_callback, handle_caps_change)
on_pad_added(p, ok) ==
    /\ pad_added_callback(p, ok)
    /\ handle_caps_change(p)

\* uridecodebin emits pad-added once for each stream it finds.
PadAdded ==
    /\ engine = "PLAYING"
    /\ nEvents < MaxEvents
    /\ nEvents' = nEvents + 1
    /\ \E p \in Pads \ added :
          /\ added' = added \cup {p}
          /\ \E ok \in BOOLEAN : on_pad_added(p, ok)
    /\ UNCHANGED << mainVars, cfgVars, busVars, outLog, workerLog, rr, frameVars,
                    caps, quietProbes >>

\* The engine completes caps negotiation on a pad: get_current_caps() is set.
Negotiate ==
    /\ engine = "PLAYING"
    /\ nEvents < MaxEvents
    /\ nEvents' = nEvents + 1
    /\ \E p \in added \ caps : caps' = caps \cup {p}
    /\ UNCHANGED << mainVars, cfgVars, busVars, outLog, workerLog, rr, frameVars,
                    added, probe, linkedTo, linkAttempts, skipped, quietProbes >>

\* Variant of on_pad_upstream_event that returns OK after sending the caps.
on_pad_upstream_event_KeepProbe(p) ==
    IF p \in caps
    THEN /\ OutSend("Caps", p)
         /\ probe' = probe
         /\ quietProbes' = quietProbes
    ELSE /\ outLog' = outLog
         /\ probe' = probe
         /\ quietProbes' = quietProbes \cup {p}

\* on_pad_upstream_event(pad, info, user_data): REMOVE detaches the probe, OK keeps it
on_pad_upstream_event(p) ==
    IF p \in caps
    THEN /\ OutSend("Caps", p)
         /\ probe' = probe \ {p}
         /\ quietProbes' = quietProbes
    ELSE /\ outLog' = outLog
         /\ probe' = probe
         /\ quietProbes' = quietProbes \cup {p}

\* An upstream event passes a pad whose probe is attached.
ProbeFire ==
    /\ engine = "PLAYING"
    /\ nEvents < MaxEvents
    /\ nEvents' = nEvents + 1
    /\ \E p \in probe : on_pad_upstream_event(p)
    /\ UNCHANGED << mainVars, cfgVars, busVars, workerLog, rr, frameVars,
                    added, caps, linkedTo, linkAttempts, skipped >>

Next ==
    \/ SetPlaying
    \/ TryBody
    \/ Interrupt
    \/ LoopReturn
    \/ Finally
    \/ BusEOS
    \/ BusEOSWorker
    \/ BusEOSReturn
    \/ BusError
    \/ BusTag
    \/ BusOther
    \/ NewSample
    \/ PadAdded
    \/ Negotiate
    \/ ProbeFire

Spec == Init /\ [][Next]_vars
\* ======================================================== claims C1..C5
EOSCountOf(w) == Count(workerLog[w], "EOS")

C2_EOSIsLastMessage ==
    /\ \A i, j \in 1..Len(outLog) :
          (i < j /\ outLog[i].kind = "EOS") => outLog[j].kind \notin {"Caps", "Tags"}
    /\ \A w \in Workers : \A i, j \in 1..Len(workerLog[w]) :
          (i < j /\ workerLog[w][i].kind = "EOS") => workerLog[w][j].kind # "Frame"

\* C3: once the handler of an EOS bus message has returned, every worker has
\* been sent exactly one EndOfStream for each EOS bus message.
C3_EveryWorkerOneEOS ==
    busPc = "idle" => \A w \in Workers : EOSCountOf(w) = nEOS

\* C4: every EndOfStream send, to the output and to the workers, is made
\* with the retrying ensure_send.
C4_EveryEOSSendReliable ==
    /\ \A i \in 1..Len(outLog) :
          outLog[i].kind = "EOS" => outLog[i].mode = "ensure_send"
    /\ \A w \in Workers : \A i \in 1..Len(workerLog[w]) :
          workerLog[w][i].kind = "EOS" => workerLog[w][i].mode = "ensure_send"

\* C5: for the k-th EOS bus message, the EndOfStream send to the output
\* precedes every one of its sends to the workers: whenever a worker send
\* of the k-th message has been made, the output has k EndOfStream sends.
C5_OutputBeforeWorkers ==
    \A k \in 1..nEOS : PushEOS > n_workers * (k - 1) => OutEOS >= k

\* C5 witness: the first worker send of an EOS bus message has just been made.
C5_Witness ==
    /\ n_workers = 2
    /\ busPc = "eos_workers"
    /\ eosI = 1
    /\ OutEOS = 1
    /\ PushEOS = 1
\* ======================================================= claims C6..C10
CapsSentFor(p) ==
    Cardinality({i \in 1..Len(outLog) : outLog[i].kind = "Caps" /\ outLog[i].pad = p})

Attempted == {linkAttempts[i] : i \in 1..Len(linkAttempts)}

\* C6: for every pad, a Caps message is sent at most once, only once the
\* pad's caps are set, and the invocation that sends detaches the probe;
\* while the caps are not set the probe has sent nothing and stays attached.
C6_CapsOncePerPad ==
    \A p \in added :
        /\ CapsSentFor(p) <= 1
        /\ CapsSentFor(p) = 1 => (p \in caps /\ p \notin probe)
        /\ p \notin caps => (CapsSentFor(p) = 0 /\ p \in probe)
        /\ CapsSentFor(p) = 0 => p \in probe

\* C6 witness: a pad whose probe ran before its caps were set and sent its
\* Caps message on a later invocation.
C6_Witness ==
    \E p \in added : p \in quietProbes /\ CapsSentFor(p) = 1 /\ p \notin probe

\* C7 (as stated): whatever pads are added, and also when a link attempt
\* fails, exactly one link attempt is made in total and every later pad is
\* skipped.
C7_ExactlyOneLinkAttempt ==
    added # {} => (Len(linkAttempts) = 1 /\ skipped = added \ Attempted)

\* C7 (amended): a link is attempted on a new pad exactly while
\* videoconvert's sink pad is not linked: every pad is either attempted once
\* or skipped, only the last attempt can have succeeded (a failed attempt is
\* followed by an attempt on the next pad), pads are skipped only after a
\* successful link, and no attempt follows a successful one.
C7_LinkAttemptsUntilLinked ==
    /\ Attempted \cup skipped = added
    /\ Attempted \cap skipped = {}
    /\ Cardinality(Attempted) = Len(linkAttempts)
    /\ linkedTo # NoPad => (linkAttempts # << >> /\ linkedTo = linkAttempts[Len(linkAttempts)])
    /\ skipped # {} => linkedTo # NoPad
    /\ added # {} => linkAttempts # << >>

\* C7 witness: the first attempt failed and the second pad was linked.
C7_Witness ==
    /\ Len(linkAttempts) = 2
    /\ linkedTo = linkAttempts[2]

\* C8: once two pads have negotiated caps and their probes have run, exactly
\* one Caps message has been sent to the output for the stream.
C8_OneCapsPerStream ==
    (Cardinality(added) = 2 /\ caps = added /\ probe = {}) => Count(outLog, "Caps") = 1

\* C9: after every invocation of on_new_sample no buffer it mapped is still
\* mapped.
C9_NoBufferLeftMapped == mapped = 0

\* C10: once the try block has been left (interrupt, exception or quit) the
\* finally block is the only way on, and it sets the pipeline to NULL first,
\* then closes the output socket, then the push socket; nothing is closed
\* before.
C10_TeardownInOrder ==
    /\ exitCause # "none" => (pc = "done" \/ (pc = "finally" /\ ENABLED Finally))
    /\ pc = "done" => (engine = "NULL"
                       /\ teardown = << "set_null", "close_output", "close_push" >>)
    /\ pc # "done" => teardown = << >>
    /\ pc \in {"try", "loop", "finally"} => engine = "PLAYING"

\* C10 witness: input() finished after an exception in the try block.
C10_Witness ==
    /\ pc = "done"
    /\ exitCause = "exception"
    /\ teardown = << "set_null", "close_output", "close_push" >>

\* ====================================================== claims C11..C20
\* C11: when an Error bus message was received (the loop was quit by it),
\* the process ends with a non-zero status.
C11_ErrorExitsNonZero ==
    (pc = "done" /\ exitCause = "quit") => ExitStatus # 0

\* C12: when the environment variable is set, prioritized_config returns the
\* converted environment value whatever the document holds; the document
\* value is returned only when the variable is unset.
C12_EnvOverridesDocument ==
    call.path # "none" =>
        /\ call.env # None => call.result = convert(call.convert_to, call.env)
        /\ (call.env = None /\ call.doc # Absent) => call.result = Returned(call.doc)

\* C12 witness: environment and document both hold the field, with values
\* that differ, and the call returned.
C12_Witness ==
    /\ call.path = "n_workers"
    /\ call.env = StrV("3")
    /\ call.doc = IntV(2)
    /\ call.result = Returned(IntV(3))
    /\ conf.n_workers = IntV(3)

HasColon(text) == \E k \in 1..Len(text) : text[k] = ":"
FirstColon(text) ==
    CHOOSE k \in 1..Len(text) : text[k] = ":" /\ \A j \in 1..(k - 1) : text[j] # ":"

\* C14: the URI 'screen' gives protocol = location = 'screen'; a missing URI
\* or one without a colon ends in sys.exit(1); any other URI gives the text
\* before its first colon as protocol and all the text after it as location.
C14_UriSplitOnFirstColon ==
    call.path = "uri" =>
        LET u   == call.result.value
            vid == conf[call.sec]
        IN  IF u = StrV(<<"screen">>)
            THEN /\ pc = "config"
                 /\ vid.protocol = StrV(<<"screen">>)
                 /\ vid.location = StrV(<<"screen">>)
            ELSE IF u = None \/ ~HasColon(u.s)
            THEN pc = "exit1"
            ELSE /\ pc = "config"
                 /\ vid.protocol = StrV(SubSeq(u.s, 1, FirstColon(u.s) - 1))
                 /\ vid.location = StrV(SubSeq(u.s, FirstColon(u.s) + 1, Len(u.s)))

\* C15: when the input address port is in neither the environment nor the
\* document, the process ends with a non-zero status with the Config not
\* constructed, the graph not built, the pipeline not started and nothing
\* sent on either channel.
C15_MissingPortExitsBeforeGraph ==
    (call.path = "port" /\ call.sec = "input" /\ call.env = None /\ call.doc = Absent) =>
        /\ pc = "exit1"
        /\ ExitStatus # 0
        /\ conf.stage = << "input", "port" >>
        /\ engine = "READY"
        /\ outLog = << >>
        /\ workerLog = << >>
        /\ nEvents = 0

\* C15 witness: the port call of the input address found nothing and exited.
C15_Witness ==
    /\ call.path = "port"
    /\ call.sec = "input"
    /\ call.env = None
    /\ call.doc = Absent
    /\ call.result = Exited
    /\ pc = "exit1"

LogLevels == {StrV("INFO"), StrV("WARN"), StrV("DEBUG")}

\* C16: once log_level is resolved it is one of INFO, WARN, DEBUG: a
\* resolved value outside the set became DEBUG and construction went on, a
\* value inside the set was kept.
C16_LogLevelFallsBackToDebug ==
    /\ conf.log_level # None => conf.log_level \in LogLevels
    /\ (call.path = "log_level" /\ call.result.kind = "value") =>
          /\ pc = "config"
          /\ conf.stage = << "input", "enable" >>
          /\ conf.log_level = IF call.result.value \in LogLevels
                              THEN call.result.value
                              ELSE StrV("DEBUG")

\* C16 witness: the level TRACE was resolved and DEBUG is what the Config holds.
C16_Witness ==
    /\ call.path = "log_level"
    /\ call.result = Returned(StrV("TRACE"))
    /\ conf.log_level = StrV("DEBUG")
    /\ pc = "config"

\* C17: a constructed Config has n_workers >= 1.
C17_NWorkersPositive ==
    conf.stage = << "config", "constructed" >> =>
        (conf.n_workers.t = "int" /\ conf.n_workers.i >= 1)

RECURSIVE SumFrames(_)
SumFrames(w) == IF w = 0 THEN 0 ELSE Count(workerLog[w], "Frame") + SumFrames(w - 1)
PushFrames == SumFrames(n_workers)

\* C18: an invocation of on_new_sample that gets no sample, no buffer or no
\* map returns ERROR, sends nothing and leaves input() where it is; a frame
\* is sent only by an invocation in which all three succeeded, once, with
\* the single-attempt send.
C18_FrameErrorPaths ==
    [][NewSample =>
        /\ outcome' \in {"no_sample", "no_buffer", "map_fail"} =>
              /\ flowRet' = "ERROR"
              /\ workerLog' = workerLog
              /\ outLog' = outLog
              /\ pc' = pc
              /\ quitRequested' = quitRequested
        /\ workerLog' # workerLog =>
              /\ outcome' = "ok"
              /\ workerLog' = [workerLog EXCEPT ![rr] = Append(@, Msg("Frame", "send", NoPad))]
        /\ outcome' = "ok" => (PushFrames' = PushFrames + 1 /\ flowRet' = "OK")
    ]_vars

\* C18 witness: the map failed, ERROR was returned, no frame was ever sent
\* and the loop runs on.
C18_Witness ==
    /\ outcome = "map_fail"
    /\ flowRet = "ERROR"
    /\ PushFrames = 0
    /\ pc = "loop"
    /\ ~quitRequested

\* C19: the Error branch asks the loop to quit and sends nothing; once the
\* loop was asked to quit it stays so, no bus message is handled and no
\* EndOfStream is sent to the output or to a worker.
C19_ErrorQuitsAndSendsNothing ==
    [][ /\ BusError => (quitRequested' /\ outLog' = outLog /\ workerLog' = workerLog)
        /\ quitRequested =>
              /\ quitRequested'
              /\ nEOS' = nEOS
              /\ OutEOS' = OutEOS
              /\ PushEOS' = PushEOS
    ]_vars

\* C19 witness: an EndOfStream round was completed, then an Error bus
\* message was handled, and the loop has not returned yet.
C19_Witness ==
    /\ pc = "loop"
    /\ quitRequested
    /\ nEOS = 1
    /\ busPc = "idle"

\* C20: a Warning, StateChanged or unlisted bus message changes nothing of
\* the coordinator and sends nothing; every branch returns True; within the
\* loop only the Error branch asks the loop to quit.
C20_OtherBusMessagesIgnored ==
    [][ /\ BusOther => UNCHANGED << mainVars, busPc, eosI, nEOS, outLog, workerLog, rr >>
        /\ (BusEOSReturn \/ BusError \/ BusTag \/ BusOther) => watching'
        /\ (pc = "loop" /\ ~quitRequested /\ quitRequested') => BusError
    ]_vars

\* C20 witness: one bus message was handled in the loop and it left no
\* trace: it was a Warning, a StateChanged or an unlisted message.
C20_Witness ==
    /\ pc = "loop"
    /\ nEvents = 1
    /\ watching
    /\ ~quitRequested
    /\ nEOS = 0
    /\ outLog = << >>
    /\ outcome = "none"
    /\ added = {}
====
